---- MODULE Spec2Model ----
(***************************************************************************)
(* A model of udkm1Dsim's Heat class (src/udkm1Dsim/heat.py): the          *)
(* excitation setter, set_boundary_condition, check_excitation,            *)
(* get_absorption_profile, get_temperature_after_delta_excitation and      *)
(* calc_temp_map.                                                          *)
(*                                                                         *)
(* Times are exact integers: a time t is kept as t * Scale, so that the    *)
(* window 1.5 * pulse_width and the step pulse_width / intp of             *)
(* check_excitation are integers.  Python sequences and numpy vectors are  *)
(* TLA+ sequences (index 1 is Python's index 0).                           *)
(***************************************************************************)
EXTENDS Integers, Sequences, FiniteSets, TLC

\* ---------------------------------------------------------------- bounds
MaxPulses == 2      \* pump events in one excitation dictionary
MaxDelay == 1       \* pump delays handed to the setter are 0..MaxDelay
MaxK == 2           \* sub-systems of the sample
MaxTime == 4        \* pump delays handed to check_excitation are 0..MaxTime
MaxWidth == 1       \* their pulse widths are 0..MaxWidth
MaxLayers == 2      \* layers of the sample
MaxMesh == 3        \* points of a distance mesh

\* ------------------------------------------------------- program constants
windowNum == 3      \* window = 1.5 = windowNum / windowDen
windowDen == 2
intp == 1000        \* interpolation factor for finite pulse duration
Scale == windowDen * intp

\* ---------------------------------------------------------------- helpers
Range(s) == {s[j] : j \in 1..Len(s)}

SeqsUpTo(V, n) == UNION {[1..m -> V] : m \in 0..n}

RECURSIVE SumSeq(_)
\* np.sum of a vector
SumSeq(s) == IF s = <<>> THEN 0 ELSE Head(s) + SumSeq(Tail(s))

MinSet(A) == CHOOSE x \in A : \A y \in A : x <= y

StrictlyIncreasing(s) == \A j \in 1..(Len(s) - 1) : s[j] < s[j + 1]

RemoveAt(s, p) == [j \in 1..(Len(s) - 1) |-> IF j < p THEN s[j] ELSE s[j + 1]]

np_sort_noop(s) == s

RECURSIVE np_sort(_)
\* np.sort: the elements of s in ascending order
np_sort(s) ==
    IF s = <<>> THEN <<>>
    ELSE LET m == MinSet(Range(s))
             p == CHOOSE j \in 1..Len(s) : s[j] = m
         IN  <<m>> \o np_sort(RemoveAt(s, p))

\* len(np.unique(s))
np_unique_len(s) == Cardinality(Range(s))

\* ------------------------------------------------------------------ state
VARIABLES
    heat_diffusion,        \* self.heat_diffusion
    K,                     \* self.S.num_sub_systems
    S,                     \* self.S, the sample: interfaces and layer properties
    excitation,            \* self._excitation
    boundary_conditions,   \* self.boundary_conditions
    op,                    \* the operation called last
    arg,                   \* the arguments of that call
    raised,                \* whether that call raised an exception
    result,                \* what that call returned
    heap,                  \* the numpy arrays that calls share by reference
    cm                     \* the local variables of a running calc_temp_map

vars == <<heat_diffusion, K, S, excitation, boundary_conditions, op, arg, raised,
          result, heap, cm>>

NoArg == [none |-> TRUE]

\* The arrays of temperatures, by name: arg is the array the caller passed as
\* init_temp, new the array check_initial_temperature builds from a single
\* temperature, seed the frame temp_map[0] and special the frame temp[-1] of a
\* heat-diffusion result.  A field is a sequence of one temperature per
\* layer (one sub-system).
NoHeap == [arg |-> <<>>, new |-> <<>>, seed |-> <<>>, special |-> <<>>]

\* Heat.__init__
InitExcitation == [fluence |-> <<>>, delay_pump |-> <<>>, pulse_width |-> <<>>]

\* A Python value handed to np.size: a scalar, or a vector (data).
Scalar(x) == [scalar |-> TRUE, data |-> <<x>>]
Vector(s) == [scalar |-> FALSE, data |-> s]
np_size(v) == IF v.scalar THEN 1 ELSE Len(v.data)

InitBoundary ==
    [left_type |-> 0, left_value |-> Vector(<<>>),
     right_type |-> 0, right_value |-> Vector(<<>>)]

\* ------------------------------------------------------- excitation setter
\* The three assignments of the setter, before any validation.  A dictionary
\* argument carries nkeys: the number of keys read (in the order fluence,
\* delay_pump, pulse_width) before a KeyError, 3 when all are present.
SetterAssign(old, a) ==
    IF a.kind = "quantity"
    THEN [fluence |-> <<a.fluence>>, delay_pump |-> <<0>>, pulse_width |-> <<0>>]
    ELSE [fluence |-> IF a.nkeys >= 1 THEN a.fluence ELSE old.fluence,
          delay_pump |-> IF a.nkeys >= 2 THEN a.delay_pump ELSE old.delay_pump,
          pulse_width |-> IF a.nkeys >= 3 THEN a.pulse_width ELSE old.pulse_width]

SameLengths(e) ==
    /\ Len(e.fluence) = Len(e.delay_pump)
    /\ Len(e.delay_pump) = Len(e.pulse_width)

UniqueDelays(e) == Len(e.delay_pump) = np_unique_len(e.delay_pump)

\* What the setter leaves in self._excitation, and whether it raised.
SetterResult(old, a) ==
    IF a.kind = "other"
    THEN [exc |-> old, raised |-> TRUE]
    ELSE LET e == SetterAssign(old, a)
         IN  IF ~SameLengths(e) THEN [exc |-> e, raised |-> TRUE]
             ELSE IF ~UniqueDelays(e) THEN [exc |-> e, raised |-> TRUE]
             ELSE [exc |-> [e EXCEPT !.delay_pump = np_sort(e.delay_pump)],
                   raised |-> FALSE]

SetExcitation(a) ==
    LET r == SetterResult(excitation, a)
    IN  /\ excitation' = r.exc
        /\ raised' = r.raised
        /\ op' = "excitation"
        /\ arg' = a
        /\ result' = NoArg
        /\ UNCHANGED <<heat_diffusion, K, S, boundary_conditions, heap, cm>>

\* ---- inputs of the setter
\* The setter never reads a fluence or a pulse width: event j of an input
\* carries fluence j and pulse width j - 1, which tell the events apart.
TagFluence(n) == [j \in 1..n |-> j]
TagWidth(n) == [j \in 1..n |-> j - 1]

DropLast(s) == IF s = <<>> THEN s ELSE SubSeq(s, 1, Len(s) - 1)

DictArg(fl, dl, pw, nk) ==
    [kind |-> "dict", fluence |-> fl, delay_pump |-> dl, pulse_width |-> pw, nkeys |-> nk]

\* Dictionaries of n events, all keys present; one of the three sequences may
\* be one element short.
SetterDicts ==
    {DictArg(IF cut = "fluence" THEN DropLast(TagFluence(Len(dl))) ELSE TagFluence(Len(dl)),
             IF cut = "delay_pump" THEN DropLast(dl) ELSE dl,
             IF cut = "pulse_width" THEN DropLast(TagWidth(Len(dl))) ELSE TagWidth(Len(dl)),
             3) :
        dl \in SeqsUpTo(0..MaxDelay, MaxPulses),
        cut \in {"none", "fluence", "delay_pump", "pulse_width"}}

\* Dictionaries that lack a key: what follows the first missing key is never
\* read, so it is left empty.
SetterPartialDicts ==
    {DictArg(<<>>, <<>>, <<>>, 0)}
    \cup {DictArg(TagFluence(n), <<>>, <<>>, 1) : n \in 0..MaxPulses}
    \cup {DictArg(TagFluence(Len(dl)), dl, <<>>, 2) : dl \in SeqsUpTo(0..MaxDelay, MaxPulses)}

SetterQuantities == {[kind |-> "quantity", fluence |-> f] : f \in 1..2}

SetterOthers == {[kind |-> "other"]}

\* no calc_temp_map is running
NoCall == [pc |-> "idle"]

\* ----------------------------------------------------------------- sample
\* The sample is the collaborator self.S.  A sample of n layers has its
\* interfaces at 0, 2, ..., 2n (get_distances_of_interfaces), so that every
\* layer has thickness 2 and its middle (get_distances_of_layers) is a whole
\* number; layer i has area i, which tells the entries of the area vector
\* apart, and mass 1.  opt_pen_depth is 0 for an infinite penetration depth.
LayerThickness == 2

Sample(n, depths) ==
    [interfaces |-> [j \in 1..(n + 1) |-> LayerThickness * (j - 1)],
     opt_pen_depth |-> depths,
     thicknesses |-> [j \in 1..n |-> LayerThickness],
     areas |-> [j \in 1..n |-> j],
     masses |-> [j \in 1..n |-> 1]]

Samples == {Sample(Len(depths), depths) : depths \in SeqsUpTo({0, 1}, MaxLayers) \ {<<>>}}

\* get_number_of_layers()
NumLayers(sample) == Len(sample.opt_pen_depth)

\* the sample of the specifications that never read it
PlainSample == Sample(1, <<0>>)

InitHeat ==
    /\ heat_diffusion \in BOOLEAN
    /\ K \in 1..MaxK
    /\ S \in Samples
    /\ excitation = InitExcitation
    /\ boundary_conditions = InitBoundary
    /\ op = "init"
    /\ arg = NoArg
    /\ raised = FALSE
    /\ result = NoArg
    /\ heap = NoHeap
    /\ cm = NoCall

SetExcitationQuantity == \E a \in SetterQuantities : SetExcitation(a)
SetExcitationDict == \E a \in SetterDicts : SetExcitation(a)
SetExcitationPartialDict == \E a \in SetterPartialDicts : SetExcitation(a)
SetExcitationOther == \E a \in SetterOthers : SetExcitation(a)

NextExcitation ==
    \/ SetExcitationQuantity
    \/ SetExcitationDict
    \/ SetExcitationPartialDict
    \/ SetExcitationOther

\* the setter reads neither the sample nor heat_diffusion
InitSetter == InitHeat /\ K = 1 /\ ~heat_diffusion /\ S = PlainSample

SpecExcitation == InitSetter /\ [][NextExcitation]_vars

\* -------------------------------------------------------- check_excitation
\* The stored delays and widths are in whole units; the requested delays and
\* the time grids of the result are in ticks, Scale ticks to the unit.

\* pulse_width as used by the call: all zero without heat diffusion
EffectiveWidth(e, hd) ==
    IF SumSeq(e.pulse_width) > 0 /\ ~hd
    THEN [j \in 1..Len(e.fluence) |-> 0]
    ELSE e.pulse_width

OverlapStrict(dl, pw, k) ==
    windowDen * dl[k] + windowNum * pw[k] > windowDen * dl[k + 1] - windowNum * pw[k + 1]

\* delay_pump[k] + window*pulse_width[k] >= delay_pump[k+1] - window*pulse_width[k+1]
Overlap(dl, pw, k) ==
    windowDen * dl[k] + windowNum * pw[k] >= windowDen * dl[k + 1] - windowNum * pw[k + 1]

RECURSIVE GroupEnd(_, _, _)
\* The inner while loop, entered with counter k: the index of the last event
\* of the group, or 0 when the loop raises 'Overlapping pulse must have
\* duration > 0!'.
GroupEnd(dl, pw, k) ==
    IF k + 1 <= Len(dl) /\ Overlap(dl, pw, k)
    THEN IF pw[k + 1] = 0 THEN 0 ELSE GroupEnd(dl, pw, k + 1)
    ELSE k

\* np.r_[a:b:step], that is np.arange(a, b, step)
Arange(a, b, step) ==
    IF b <= a THEN <<>>
    ELSE [j \in 1..((b - a + step - 1) \div step) |-> a + (j - 1) * step]

\* the time vector of the group of events i..k
Intervall(dl, pw, i, k) ==
    LET delta_delay == MinSet({pw[j] : j \in i..k}) * windowDen
    IN  IF delta_delay = 0
        THEN <<dl[i] * Scale>>
        ELSE Arange(dl[i] * Scale - windowNum * intp * pw[i],
                    dl[k] * Scale + windowNum * intp * pw[k],
                    delta_delay)

RECURSIVE NExcitation(_, _, _, _)
\* The outer while loop from counter i on: the list n_excitation, and whether
\* a group raised.
NExcitation(fl, dl, pw, i) ==
    IF i > Len(dl) THEN [raised |-> FALSE, list |-> <<>>]
    ELSE LET k == GroupEnd(dl, pw, i)
         IN  IF k = 0 THEN [raised |-> TRUE, list |-> <<>>]
             ELSE LET rest == NExcitation(fl, dl, pw, k + 1)
                  IN  IF rest.raised THEN rest
                      ELSE [raised |-> FALSE,
                            list |-> <<[t |-> Intervall(dl, pw, i, k),
                                        delay_pump |-> SubSeq(dl, i, k),
                                        pulse_width |-> SubSeq(pw, i, k),
                                        fluence |-> SubSeq(fl, i, k)]>> \o rest.list]

\* an interval without excitation on the requested delays ds
Quiet(ds) == [t |-> ds, delay_pump |-> <<>>, pulse_width |-> <<>>, fluence |-> <<>>]

\* delays[delays < np.min(first)]
DelaysBefore(delays, first) ==
    LET m == MinSet(Range(first))
        Test(x) == x < m
    IN  SelectSeq(delays, Test)

DelaysBetweenClosed(delays, cur, nxt) ==
    LET Test(x) == x >= cur[Len(cur)] /\ x < nxt[1]
    IN  SelectSeq(delays, Test)

\* delays[np.logical_and(delays > cur[-1], delays < nxt[0])]
DelaysBetween(delays, cur, nxt) ==
    LET Test(x) == x > cur[Len(cur)] /\ x < nxt[1]
    IN  SelectSeq(delays, Test)

\* delays[delays > cur[-1]]
DelaysAfter(delays, cur) ==
    LET Test(x) == x > cur[Len(cur)]
    IN  SelectSeq(delays, Test)

RECURSIVE Traverse(_, _, _)
\* the for loop over n_excitation from index i on
Traverse(delays, nex, i) ==
    IF i > Len(nex) THEN <<>>
    ELSE LET ds == IF i + 1 <= Len(nex)
                   THEN DelaysBetween(delays, nex[i].t, nex[i + 1].t)
                   ELSE DelaysAfter(delays, nex[i].t)
         IN  <<nex[i]>> \o (IF ds # <<>> THEN <<Quiet(ds)>> ELSE <<>>)
                      \o Traverse(delays, nex, i + 1)

\* check_excitation(delays) on the stored excitation e: the returned tuple,
\* and whether the call raised (an overlapping pulse of zero width, or an
\* index into an empty list or vector).
CheckExcitationResult(e, hd, delays) ==
    LET pw == EffectiveWidth(e, hd)
        n_excitation == NExcitation(e.fluence, e.delay_pump, pw, 1)
        nex == n_excitation.list
        failed == [raised |-> TRUE, res |-> <<>>, fluence |-> e.fluence,
                   delay_pump |-> e.delay_pump, pulse_width |-> pw]
    IN  IF n_excitation.raised THEN failed
        ELSE IF nex = <<>> THEN failed
        ELSE IF \E g \in 1..Len(nex) : nex[g].t = <<>> THEN failed
        ELSE LET before == DelaysBefore(delays, nex[1].t)
             IN  [raised |-> FALSE,
                  res |-> (IF before # <<>> THEN <<Quiet(before)>> ELSE <<>>)
                          \o Traverse(delays, nex, 1),
                  fluence |-> e.fluence,
                  delay_pump |-> e.delay_pump,
                  pulse_width |-> pw]

\* ---- inputs
\* strictly increasing sequences over 0..MaxTime of at most MaxPulses delays
AscendingDelays ==
    {dl \in SeqsUpTo(0..MaxTime, MaxPulses) : StrictlyIncreasing(dl)}

PumpDicts ==
    {DictArg(TagFluence(Len(dl)), dl, pw, 3) :
        dl \in AscendingDelays, pw \in SeqsUpTo(0..MaxWidth, MaxPulses)}

\* requested delays: np.arange-like grids, and the empty grid
GridStop == (MaxTime + 3) * Scale
DelayGrids ==
    {<<>>,
     Arange(-2 * Scale, GridStop, Scale \div 2),
     Arange(Scale, GridStop, Scale \div 2),
     Arange(-2 * Scale, GridStop, 3 * (Scale \div 2))}

SetPumps ==
    \E a \in PumpDicts :
        /\ op = "init"
        /\ Len(a.pulse_width) = Len(a.delay_pump)
        /\ SetExcitation(a)

CheckExcitation ==
    \E delays \in DelayGrids :
        LET r == CheckExcitationResult(excitation, heat_diffusion, delays)
        IN  /\ op \in {"init", "excitation"}
            /\ op' = "check_excitation"
            /\ arg' = [delays |-> delays]
            /\ raised' = r.raised
            /\ result' = r
            /\ UNCHANGED <<heat_diffusion, K, S, excitation, boundary_conditions, heap, cm>>

InitCheck == InitHeat /\ K = 1 /\ S = PlainSample

NextCheck == SetPumps \/ CheckExcitation

SpecCheck == InitCheck /\ [][NextCheck]_vars

\* -------------------------------------------------- get_absorption_profile
\* A value of the profile is the real number I0/depth * exp(-off/depth), kept
\* unevaluated as the three things that determine it; I0, a product of
\* factors exp(-thickness/depth), is kept as the sequence of its factors
\* <<thickness, depth>>.  Zero is the number 0 that np.zeros puts.
Zero == [I0 |-> <<>>, depth |-> 0, off |-> 0]

\* I0/opt_pen_depth*np.exp(-(z-interfaces[i])/opt_pen_depth)
ProfileValue(I0, depth, off) == [I0 |-> I0, depth |-> depth, off |-> off]

\* the mesh points of the layer between interfaces i and i+1, in mesh order
InLayer(sample, distances, i) ==
    LET lo == sample.interfaces[i]
        hi == sample.interfaces[i + 1]
        last == i >= Len(sample.interfaces) - 1
        Test(z) == z >= lo /\ (IF last THEN z <= hi ELSE z < hi)
    IN  SelectSeq(distances, Test)

RECURSIVE AbsorptionLoop(_, _, _, _, _, _)
\* the for loop from layer i on, with counter k, intensity I0 and the vector
\* dalpha_dz filled so far
AbsorptionLoop(sample, distances, i, k, I0, dalpha_dz) ==
    IF i > Len(sample.interfaces) - 1 THEN dalpha_dz
    ELSE LET depth == sample.opt_pen_depth[i]
             z == InLayer(sample, distances, i)
             m == Len(z)
             absorbing == depth # 0
             filled == IF absorbing
                       THEN [j \in 1..Len(dalpha_dz) |->
                               IF j > k /\ j <= k + m
                               THEN ProfileValue(I0, depth, z[j - k] - sample.interfaces[i])
                               ELSE dalpha_dz[j]]
                       ELSE dalpha_dz
             I0next == IF absorbing
                       THEN Append(I0, <<sample.interfaces[i + 1] - sample.interfaces[i], depth>>)
                       ELSE I0
         IN  AbsorptionLoop(sample, distances, i + 1, k + m, I0next, filled)

get_absorption_profile(sample, distances) ==
    AbsorptionLoop(sample, distances, 1, 0, <<>>, [j \in 1..Len(distances) |-> Zero])

\* the third value of get_distances_of_layers(): the middle of every layer
LayerMiddles(sample) ==
    [j \in 1..NumLayers(sample) |->
        (sample.interfaces[j] + sample.interfaces[j + 1]) \div 2]

\* meshes of at most MaxMesh points at, between and just outside the interfaces
Meshes == SeqsUpTo(-1..(LayerThickness * MaxLayers), MaxMesh)

GetAbsorptionProfile ==
    \E distances \in Meshes :
        /\ op = "init"
        /\ op' = "get_absorption_profile"
        /\ arg' = [distances |-> distances]
        /\ raised' = FALSE
        /\ result' = get_absorption_profile(S, distances)
        /\ UNCHANGED <<heat_diffusion, K, S, excitation, boundary_conditions, heap, cm>>

InitAbsorption == InitHeat /\ K = 1 /\ ~heat_diffusion

NextAbsorption == GetAbsorptionProfile

SpecAbsorption == InitAbsorption /\ [][NextAbsorption]_vars

\* ------------------------------------------------ check_initial_temperature
\* init_temp is what the caller holds: a single temperature (Scalar) or a
\* reference to an array of the heap.  Returns the reference the callee goes
\* on with, the heap, and whether the shape check raised.
check_initial_temperature(sample, h, init_temp) ==
    LET n == NumLayers(sample)
    IN  IF init_temp.scalar
        THEN [raised |-> FALSE, ref |-> "new",
              heap |-> [h EXCEPT !.new = [j \in 1..n |-> init_temp.data[1]]]]
        ELSE IF Len(h[init_temp.ref]) = 1
        THEN [raised |-> FALSE, ref |-> "new",
              heap |-> [h EXCEPT !.new = [j \in 1..n |-> h[init_temp.ref][1]]]]
        ELSE IF Len(h[init_temp.ref]) # n
        THEN [raised |-> TRUE, ref |-> init_temp.ref, heap |-> h]
        ELSE [raised |-> FALSE, ref |-> init_temp.ref, heap |-> h]

Ref(name) == [scalar |-> FALSE, ref |-> name]

\* ---------------------------------- get_temperature_after_delta_excitation
\* brentq(fun, init_temp[i], 1e5) with the layer's heat capacity, both outside
\* this file: the root is the start temperature when no energy is absorbed
\* and lies rise above it otherwise.
Brentq(t1, E0, rise) == IF E0 = 0 THEN t1 ELSE t1 + rise

\* final_temp = init_temp binds a second name to the same array
FinalTempBinding(init_ref) == init_ref

RECURSIVE DeltaLayers(_, _, _, _, _, _, _, _)
\* The for loop over the layers from layer i on.  env.rise is the rise of the
\* roots brentq finds, env.fail the layer at which brentq raises (0: none).
DeltaLayers(sample, dalpha_dz, E0, h, init_ref, final_ref, env, i) ==
    IF i > NumLayers(sample) THEN [raised |-> FALSE, heap |-> h]
    ELSE IF dalpha_dz[i] = Zero
    THEN DeltaLayers(sample, dalpha_dz, E0, h, init_ref, final_ref, env, i + 1)
    ELSE IF Len(E0) # 1 \/ env.fail = i THEN [raised |-> TRUE, heap |-> h]
    ELSE DeltaLayers(sample, dalpha_dz, E0,
                     [h EXCEPT ![final_ref][i] = Brentq(h[init_ref][i], E0[1], env.rise)],
                     init_ref, final_ref, env, i + 1)

\* get_temperature_after_delta_excitation(fluence, init_temp): fluence is a
\* list of fluences.
DeltaExcitation(sample, h, fluence, init_temp, env) ==
    LET n == NumLayers(sample)
        dalpha_dz == get_absorption_profile(sample, LayerMiddles(sample))
        failed == [raised |-> TRUE, heap |-> h, final_ref |-> "new", delta_T |-> <<>>,
                   E0 |-> <<>>, dalpha_dz |-> dalpha_dz]
    IN  IF Len(sample.areas) < 2 THEN failed          \* areas[1]
        ELSE LET E0 == [j \in 1..Len(fluence) |-> fluence[j] * sample.areas[2]]
                 c == check_initial_temperature(sample, h, init_temp)
                 final_ref == FinalTempBinding(c.ref)
                 r == DeltaLayers(sample, dalpha_dz, E0, c.heap, c.ref, final_ref, env, 1)
             IN  IF c.raised THEN failed
                 ELSE IF r.raised THEN [failed EXCEPT !.heap = r.heap, !.E0 = E0]
                 ELSE [raised |-> FALSE, heap |-> r.heap, final_ref |-> final_ref,
                       delta_T |-> [j \in 1..n |-> r.heap[final_ref][j] - r.heap[c.ref][j]],
                       E0 |-> E0, dalpha_dz |-> dalpha_dz]

\* ---- inputs
InitTemperatures == {3, 4}
Fields(n) == [1..n -> InitTemperatures]
FluenceLists == {<<0>>, <<1>>, <<2>>, <<1, 2>>}
SolverEnvs(n) == {[rise |-> r, fail |-> f] : r \in {1, 2}, f \in {0, n}}

\* a call with a single initial temperature
DeltaCallScalar ==
    \E t \in InitTemperatures, fluence \in FluenceLists, env \in SolverEnvs(NumLayers(S)) :
        LET r == DeltaExcitation(S, heap, fluence, Scalar(t), env)
        IN  /\ op = "init"
            /\ op' = "get_temperature_after_delta_excitation"
            /\ arg' = [fluence |-> fluence, init_temp |-> [j \in 1..NumLayers(S) |-> t]]
            /\ raised' = r.raised
            /\ heap' = r.heap
            /\ result' = [final_temp |-> r.heap[r.final_ref], delta_T |-> r.delta_T,
                          E0 |-> r.E0, dalpha_dz |-> r.dalpha_dz]
            /\ UNCHANGED <<heat_diffusion, K, S, excitation, boundary_conditions, cm>>

\* a call with an array of initial temperatures; arg records the initial
\* field the array stands for (an array of one element stands for all layers)
DeltaCallArray ==
    \E n \in 1..MaxLayers, fluence \in FluenceLists, env \in SolverEnvs(NumLayers(S)) :
        \E field \in Fields(n) :
            LET h == [heap EXCEPT !.arg = field]
                r == DeltaExcitation(S, h, fluence, Ref("arg"), env)
            IN  /\ op = "init"
                /\ op' = "get_temperature_after_delta_excitation"
                /\ arg' = [fluence |-> fluence,
                           init_temp |-> IF Len(field) = 1
                                         THEN [j \in 1..NumLayers(S) |-> field[1]]
                                         ELSE field]
                /\ raised' = r.raised
                /\ heap' = r.heap
                /\ result' = [final_temp |-> r.heap[r.final_ref], delta_T |-> r.delta_T,
                              E0 |-> r.E0, dalpha_dz |-> r.dalpha_dz]
                /\ UNCHANGED <<heat_diffusion, K, S, excitation, boundary_conditions, cm>>

InitDelta == InitHeat /\ K = 1 /\ ~heat_diffusion

NextDelta == DeltaCallScalar \/ DeltaCallArray

SpecDelta == InitDelta /\ [][NextDelta]_vars

\* ----------------------------------------------------------- calc_temp_map
\* A result temp is a sequence of frames; a frame holds its field T and, for
\* reference, the time point t it was computed for.

\* np.diff(a, 0, 1): the difference of order n = 0 is the array itself
NpDiff0(field) == field

Abs(x) == IF x < 0 THEN -x ELSE x

\* np.sum(np.sum(np.abs(np.diff(temp_map[-1, :, :], 0, 1))))
TempGradient(field) == SumSeq([j \in 1..Len(field) |-> Abs(NpDiff0(field)[j])])

IsDiffusive(hd, iv, temp_gradient) ==
    /\ hd
    /\ Len(iv.t) > 2
    /\ \/ SumSeq(iv.fluence) = 0 /\ temp_gradient # 0
       \/ SumSeq(iv.fluence) > 0 /\ SumSeq(iv.pulse_width) > 0

IsDelta(hd, iv) ==
    /\ SumSeq(iv.fluence) > 0
    /\ (~hd \/ (hd /\ SumSeq(iv.pulse_width) = 0))

\* calc_heat_diffusion, the diffusion integrator, is not part of this file:
\* it returns one field per time point, the initial field at the first and a
\* field drift above it at the later ones.
calc_heat_diffusion(field, sub_delays, drift) ==
    [j \in 1..Len(sub_delays) |->
        [t |-> sub_delays[j],
         T |-> IF j = 1 THEN field ELSE [l \in 1..Len(field) |-> field[l] + drift]]]

\* temp[start:-1-stop, :, :]
Trim(temp, start, stop) ==
    IF Len(temp) - 1 - stop <= start THEN <<>>
    ELSE SubSeq(temp, start + 1, Len(temp) - 1 - stop)

\* the end of an iteration: the prints, which index layer 1, and the
\* hand-over of the initial temperature to the next iteration; solved is the
\* field the delta solver returned before temp was replaced by zeros
LoopEnd(h, temp, state, special, solved) ==
    IF NumLayers(S) < 2
    THEN /\ cm' = [cm EXCEPT !.pc = "done", !.temp = temp, !.state = state, !.solved = solved]
         /\ raised' = TRUE
         /\ heap' = h
    ELSE /\ cm' = [cm EXCEPT !.i = cm.i + 1, !.temp = temp, !.state = state,
                             !.solved = solved,
                             !.init_temp = IF special THEN "special"
                                           ELSE cm.temp_map[Len(cm.temp_map)],
                             !.num_ex = IF SumSeq(cm.checked_excitation[cm.i].fluence) > 0
                                        THEN cm.num_ex + Len(cm.checked_excitation[cm.i].fluence)
                                        ELSE cm.num_ex]
         /\ raised' = FALSE
         /\ heap' = h

InLoop == cm.pc = "loop" /\ cm.i <= Len(cm.checked_excitation)

CurrentInterval == cm.checked_excitation[cm.i]

CurrentGradient == TempGradient(heap[cm.temp_map[Len(cm.temp_map)]])

MapSame == UNCHANGED <<heat_diffusion, K, S, excitation, boundary_conditions, op, arg, result>>

\* ---- inputs
\* pump events at 0 and at 3 * MaxWidth, where two pulses of width MaxWidth
\* just touch
MapDelays == {<<>>, <<0>>, <<windowNum * MaxWidth>>, <<0, windowNum * MaxWidth>>}

MapPumps ==
    {DictArg(TagFluence(Len(dl)), dl, pw, 3) :
        dl \in MapDelays, pw \in SeqsUpTo(0..MaxWidth, MaxPulses)}

\* a single temperature, or an array with a gradient
MapInitTemps == {Scalar(3), Vector([j \in 1..MaxLayers |-> 2 + j])}

\* lines 447-466
CalcTempMapBegin ==
    \E delays \in DelayGrids, init_temp \in MapInitTemps :
        LET h0 == [heap EXCEPT !.arg = IF init_temp.scalar THEN <<>> ELSE init_temp.data,
                               !.seed = [j \in 1..NumLayers(S) |-> 0]]
            c == check_initial_temperature(S, h0,
                    IF init_temp.scalar THEN init_temp ELSE Ref("arg"))
            ce == CheckExcitationResult(excitation, heat_diffusion, delays)
            failed == c.raised \/ ce.raised
        IN  /\ op = "excitation" /\ ~raised
            /\ op' = "calc_temp_map"
            /\ arg' = [delays |-> delays, init_temp |-> init_temp]
            /\ raised' = failed
            /\ result' = NoArg
            /\ heap' = IF failed THEN c.heap ELSE [c.heap EXCEPT !.seed = c.heap[c.ref]]
            /\ cm' = IF failed THEN [pc |-> "done"]
                      ELSE [pc |-> "loop", i |-> 1, temp_map |-> <<"seed">>,
                            init_temp |-> c.ref, checked_excitation |-> ce.res,
                            temp |-> <<>>, state |-> "none", num_ex |-> 1,
                            solved |-> <<>>]
            /\ UNCHANGED <<heat_diffusion, K, S, excitation, boundary_conditions>>

\* lines 479-514
IntervalDiffusive ==
    \E drift \in {0, 1} :
        /\ InLoop
        /\ IsDiffusive(heat_diffusion, CurrentInterval, CurrentGradient)
        /\ LET ce == cm.checked_excitation
               i == cm.i
               start == IF i > 1 THEN 1 ELSE 0
               stop == IF /\ i < Len(ce)
                          /\ SumSeq(ce[i + 1].fluence) > 0
                          /\ SumSeq(ce[i + 1].pulse_width) = 0
                       THEN 1 ELSE 0
               sub_delays == (IF start = 1 THEN <<ce[i - 1].t[Len(ce[i - 1].t)]>> ELSE <<>>)
                             \o ce[i].t
                             \o (IF stop = 1 THEN <<ce[i + 1].t[1]>> ELSE <<>>)
               temp == calc_heat_diffusion(heap[cm.init_temp], sub_delays, drift)
               h == IF stop = 1 THEN [heap EXCEPT !.special = temp[Len(temp)].T] ELSE heap
           IN  LoopEnd(h, Trim(temp, start, stop), "Diffusive", stop = 1, <<>>)
        /\ MapSame

\* lines 515-522
IntervalDelta ==
    \E env \in {e \in SolverEnvs(NumLayers(S)) : e.rise = 1} :
        /\ InLoop
        /\ ~IsDiffusive(heat_diffusion, CurrentInterval, CurrentGradient)
        /\ IsDelta(heat_diffusion, CurrentInterval)
        /\ LET r == DeltaExcitation(S, heap, CurrentInterval.fluence, Ref(cm.init_temp), env)
           IN  IF r.raised
               THEN /\ cm' = [cm EXCEPT !.pc = "done", !.state = "Delta"]
                    /\ raised' = TRUE
                    /\ heap' = r.heap
               ELSE LoopEnd(r.heap,
                            <<[t |-> CurrentInterval.t[1],
                               T |-> [l \in 1..NumLayers(S) |-> 0]]>>,     \* np.zeros_like(temp)
                            "Delta", FALSE, r.heap[r.final_ref])
        /\ MapSame

\* lines 523-527
IntervalHold ==
    /\ InLoop
    /\ ~IsDiffusive(heat_diffusion, CurrentInterval, CurrentGradient)
    /\ ~IsDelta(heat_diffusion, CurrentInterval)
    /\ LoopEnd(heap,
               [j \in 1..Len(CurrentInterval.t) |->
                   [t |-> CurrentInterval.t[j], T |-> heap[cm.init_temp]]],
               "Hold", FALSE, <<>>)
    /\ MapSame

\* lines 562-568
CalcTempMapReturn ==
    /\ cm.pc = "loop" /\ cm.i > Len(cm.checked_excitation)
    /\ cm' = [cm EXCEPT !.pc = "done"]
    /\ result' = [temp_map |-> [f \in 1..(Len(cm.temp_map) - 1) |-> heap[cm.temp_map[f + 1]]],
                  delta_temp_map |-> [f \in 1..(Len(cm.temp_map) - 1) |->
                        [l \in 1..NumLayers(S) |->
                            heap[cm.temp_map[f + 1]][l] - heap[cm.temp_map[f]][l]]],
                  checked_excitation |-> cm.checked_excitation]
    /\ UNCHANGED <<heat_diffusion, K, S, excitation, boundary_conditions, op, arg, raised, heap>>

SetMapPumps ==
    \E a \in MapPumps :
        /\ op = "init"
        /\ Len(a.pulse_width) = Len(a.delay_pump)
        /\ SetExcitation(a)

InitMap == InitHeat /\ K = 1

Next ==
    \/ SetMapPumps
    \/ CalcTempMapBegin
    \/ IntervalDiffusive
    \/ IntervalDelta
    \/ IntervalHold
    \/ CalcTempMapReturn

Spec == InitMap /\ [][Next]_vars

\* -------------------------------------------------- set_boundary_condition
BoundaryBtype(boundary_type) ==
    CASE boundary_type = "temperature" -> 1
      [] boundary_type = "flux" -> 2
      [] boundary_type = "isolator" -> 0
      [] OTHER -> -1          \* the else branch, which raises

BoundaryNoSizeCheck(btype, value, k) == FALSE

\* (btype > 0) and (np.size(value) != K)
BoundarySizeCheck(btype, value, k) == (btype > 0) /\ (np_size(value) # k)

\* What set_boundary_condition leaves in self.boundary_conditions, and
\* whether it raised.
BoundaryResult(bc, k, a) ==
    LET btype == BoundaryBtype(a.boundary_type)
    IN  IF btype < 0 THEN [bc |-> bc, raised |-> TRUE]
        ELSE IF BoundarySizeCheck(btype, a.value, k) THEN [bc |-> bc, raised |-> TRUE]
        ELSE IF a.boundary_side = "left"
             THEN [bc |-> [bc EXCEPT !.left_type = btype, !.left_value = a.value],
                   raised |-> FALSE]
        ELSE IF a.boundary_side = "right"
             THEN [bc |-> [bc EXCEPT !.right_type = btype, !.right_value = a.value],
                   raised |-> FALSE]
        ELSE [bc |-> bc, raised |-> TRUE]

BoundarySides == {"left", "right", "top"}
BoundaryTypes == {"isolator", "temperature", "flux", "insulator"}
\* the default scalar 0, and vectors of 0..MaxK+1 entries
BoundaryValues == {Scalar(0)} \cup {Vector([j \in 1..n |-> 1]) : n \in 0..(MaxK + 1)}

BoundaryArgs ==
    {[boundary_side |-> s, boundary_type |-> t, value |-> v] :
        s \in BoundarySides, t \in BoundaryTypes, v \in BoundaryValues}

SetBoundaryCondition ==
    \E a \in BoundaryArgs :
        LET r == BoundaryResult(boundary_conditions, K, a)
        IN  /\ boundary_conditions' = r.bc
            /\ raised' = r.raised
            /\ op' = "set_boundary_condition"
            /\ arg' = a
            /\ result' = NoArg
            /\ UNCHANGED <<heat_diffusion, K, S, excitation, heap, cm>>

NextBoundary == SetBoundaryCondition

InitBoundaryCalls == InitHeat /\ ~heat_diffusion /\ S = PlainSample

SpecBoundary == InitBoundaryCalls /\ [][NextBoundary]_vars

\* ------------------------------------------------------------------ properties
FullDict == op = "excitation" /\ arg.kind = "dict" /\ arg.nkeys = 3

\* C2: after a successful assignment of an excitation dictionary, every pump
\* event of the input has its fluence and its pulse width stored at the index
\* at which its delay is stored.
C2_CoSorted ==
    (FullDict /\ ~raised) =>
        \A j \in 1..Len(arg.delay_pump) :
            \E p \in 1..Len(excitation.delay_pump) :
                /\ excitation.delay_pump[p] = arg.delay_pump[j]
                /\ excitation.fluence[p] = arg.fluence[j]
                /\ excitation.pulse_width[p] = arg.pulse_width[j]

\* C3: after every successful assignment through the setter, the stored delays
\* are strictly increasing (hence without duplicate) and the three stored
\* sequences have the same length.
C3_DelaysStrictlyIncreasing ==
    (op = "excitation" /\ ~raised) =>
        /\ StrictlyIncreasing(excitation.delay_pump)
        /\ SameLengths(excitation)

\* a successful assignment of two events given in descending delay order
C3_Witness ==
    /\ FullDict /\ ~raised
    /\ Len(arg.delay_pump) >= 2
    /\ arg.delay_pump[1] > arg.delay_pump[2]
    /\ excitation.delay_pump # arg.delay_pump

\* C9, the stored part: a side whose type is temperature or flux holds a
\* value of exactly K entries.
BoundarySized ==
    /\ boundary_conditions.left_type > 0 => np_size(boundary_conditions.left_value) = K
    /\ boundary_conditions.right_type > 0 => np_size(boundary_conditions.right_value) = K

BoundaryBadCall(a, k) ==
    \/ a.boundary_type \notin {"isolator", "temperature", "flux"}
    \/ a.boundary_side \notin {"left", "right"}
    \/ a.boundary_type # "isolator" /\ np_size(a.value) # k

C9_Step ==
    op' = "set_boundary_condition" =>
        /\ K' = K
        /\ BoundarySized'
        /\ BoundaryBadCall(arg', K) => (raised' /\ boundary_conditions' = boundary_conditions)
        /\ ~BoundaryBadCall(arg', K) => ~raised'
        /\ (~raised' /\ arg'.boundary_side = "left") =>
               /\ boundary_conditions'.right_type = boundary_conditions.right_type
               /\ boundary_conditions'.right_value = boundary_conditions.right_value
        /\ (~raised' /\ arg'.boundary_side = "right") =>
               /\ boundary_conditions'.left_type = boundary_conditions.left_type
               /\ boundary_conditions'.left_value = boundary_conditions.left_value

\* C9: with K fixed, after any sequence of set_boundary_condition calls every
\* non-isolator side holds a value of exactly K entries; a call with an
\* unknown type, an unknown side or a non-isolator value of the wrong size
\* raises and changes nothing; an accepted call changes only the side it names.
C9_BoundaryCondition == BoundarySized /\ [][C9_Step]_vars

\* both sides non-isolating, and the last call rejected for its value's size
C9_Witness ==
    /\ op = "set_boundary_condition" /\ raised
    /\ arg.boundary_type = "flux" /\ arg.boundary_side = "left"
    /\ boundary_conditions.left_type = 1
    /\ boundary_conditions.right_type = 2
    /\ K = 2

Returned == op = "check_excitation" /\ ~raised

Excited(res) == SelectSeq(res, LAMBDA iv : iv.delay_pump # <<>>)

\* C4: in every interval sequence that check_excitation returns, no excited
\* interval holding more than one pump event contains an event of zero width.
C4_NoZeroWidthInGroup ==
    Returned =>
        \A g \in 1..Len(result.res) :
            Len(result.res[g].delay_pump) > 1 =>
                \A j \in 1..Len(result.res[g].pulse_width) :
                    result.res[g].pulse_width[j] # 0

RECURSIVE Flatten(_, _)
Flatten(res, field) ==
    IF res = <<>> THEN <<>> ELSE Head(res)[field] \o Flatten(Tail(res), field)

RECURSIVE GroupOf(_, _)
\* the index, among the intervals of res, of the one holding event p
GroupOf(res, p) ==
    IF p <= Len(res[1].delay_pump) THEN 1
    ELSE 1 + GroupOf(Tail(res), p - Len(res[1].delay_pump))

\* C5: on a stored pump list with ascending delays, consecutive events i, i+1
\* lie in the same returned interval exactly when delay[i] + 1.5*width[i] >=
\* delay[i+1] - 1.5*width[i+1]; every event lies in exactly one interval and
\* the events keep their order.
C5_MergeRule ==
    (Returned /\ StrictlyIncreasing(excitation.delay_pump)) =>
        LET dl == result.delay_pump
            pw == result.pulse_width
        IN  /\ Flatten(result.res, "delay_pump") = excitation.delay_pump
            /\ Flatten(result.res, "pulse_width") = pw
            /\ Flatten(result.res, "fluence") = excitation.fluence
            /\ \A i \in 1..(Len(dl) - 1) :
                    (GroupOf(result.res, i) = GroupOf(result.res, i + 1))
                        <=> (2 * dl[i] + 3 * pw[i] >= 2 * dl[i + 1] - 3 * pw[i + 1])

\* two finite pulses that touch exactly (merged), after a separate first one
C5_Witness ==
    /\ Returned
    /\ heat_diffusion
    /\ Len(excitation.delay_pump) = 2
    /\ excitation.delay_pump[2] - excitation.delay_pump[1] = 3
    /\ result.pulse_width = <<1, 1>>
    /\ Len(Excited(result.res)) = 1

\* C6: for strictly increasing requested delays and a stored pump list with
\* ascending delays and non-negative widths, the time grids of the returned
\* intervals, concatenated in the returned order, are strictly increasing.
C6_IntervalsOrdered ==
    (/\ Returned
     /\ StrictlyIncreasing(arg.delays)
     /\ StrictlyIncreasing(excitation.delay_pump)
     /\ \A j \in 1..Len(excitation.pulse_width) : excitation.pulse_width[j] >= 0)
        => StrictlyIncreasing(Flatten(result.res, "t"))

\* two separate finite pulses with quiet intervals before, between and after
C6_Witness ==
    /\ Returned
    /\ Len(result.res) = 5
    /\ Len(Excited(result.res)) = 2
    /\ \E g \in 1..Len(result.res) : Len(result.res[g].t) > 2 /\ result.res[g].fluence # <<>>

\* the layer whose range holds z: [interface_i, interface_i+1), the upper
\* bound included for the last layer; 0 when z lies outside the sample
LayerHolding(sample, z) ==
    LET n == NumLayers(sample)
        Holds(i) == /\ sample.interfaces[i] <= z
                    /\ IF i = n THEN z <= sample.interfaces[i + 1]
                                ELSE z < sample.interfaces[i + 1]
    IN  IF \E i \in 1..n : Holds(i) THEN CHOOSE i \in 1..n : Holds(i) ELSE 0

RECURSIVE IntensityAt(_, _)
\* the intensity left at the top of layer i
IntensityAt(sample, i) ==
    IF i = 1 THEN <<>>
    ELSE IF sample.opt_pen_depth[i - 1] = 0 THEN IntensityAt(sample, i - 1)
    ELSE Append(IntensityAt(sample, i - 1), <<sample.thicknesses[i - 1], sample.opt_pen_depth[i - 1]>>)

\* the value layer i computes for the point z
ValueOfPoint(sample, i, z) ==
    IF sample.opt_pen_depth[i] = 0 THEN Zero
    ELSE ProfileValue(IntensityAt(sample, i), sample.opt_pen_depth[i], z - sample.interfaces[i])

MeshInside == \A j \in 1..Len(arg.distances) : LayerHolding(S, arg.distances[j]) # 0

\* C10: the result has one value per mesh point and the value at position j
\* is the one computed for mesh point j by the layer that holds it (zero for
\* an infinite penetration depth), in whatever order the mesh lists its
\* points. Stated for meshes whose points all lie inside the sample.
C10_ProfileFollowsMesh ==
    (op = "get_absorption_profile" /\ MeshInside) =>
        /\ Len(result) = Len(arg.distances)
        /\ \A j \in 1..Len(arg.distances) :
               result[j] = ValueOfPoint(S, LayerHolding(S, arg.distances[j]), arg.distances[j])

\* the same on meshes that list their points in ascending order
C10_SortedMeshHolds ==
    op = "get_absorption_profile" =>
        ((\A j \in 1..(Len(arg.distances) - 1) : arg.distances[j] <= arg.distances[j + 1])
            => C10_ProfileFollowsMesh)

DeltaReturned == op = "get_temperature_after_delta_excitation" /\ ~raised

\* C7: for every layer the returned delta is the returned final temperature
\* minus the temperature the layer had in the initial field passed to the
\* call, so that a layer heated above its initial temperature has a strictly
\* positive delta.
C7_DeltaIsFinalMinusInitial ==
    DeltaReturned =>
        \A j \in 1..Len(result.delta_T) :
            /\ result.delta_T[j] = result.final_temp[j] - arg.init_temp[j]
            /\ result.final_temp[j] > arg.init_temp[j] => result.delta_T[j] > 0

MapReturned == op = "calc_temp_map" /\ cm.pc = "done" /\ ~raised

\* C1: the returned temperature map holds exactly one temperature field per
\* requested delay.
C1_OneFramePerDelay ==
    MapReturned => Len(result.temp_map) = Len(arg.delays)

\* C8: once a frame is stored in the temperature map, no later step of
\* calc_temp_map changes its values.
C8_StoredFramesKeep ==
    [][cm.pc = "loop" =>
          \A f \in 1..Len(cm.temp_map) : heap'[cm.temp_map[f]] = heap[cm.temp_map[f]]]_vars

\* an interval has been computed and its field handed on to a next one
HandedOn == cm.pc = "loop" /\ cm.state # "none" /\ cm.i <= Len(cm.checked_excitation)

\* C11: the field carried into the next interval is the last field of the
\* interval just computed (for a delta interval, the field the solver
\* returned or the frame kept for it), or the special_init_temp of a
\* Diffusive interval that produced one.
C11_CarriedIsLatest ==
    HandedOn =>
        IF cm.init_temp = "special"
        THEN cm.state = "Diffusive"
        ELSE \/ Len(cm.temp) > 0 /\ heap[cm.init_temp] = cm.temp[Len(cm.temp)].T
             \/ cm.state = "Delta" /\ heap[cm.init_temp] = cm.solved

\* the interval whose result cm.temp holds
ComputedInterval == cm.checked_excitation[cm.i - 1]

\* C12: the result a Diffusive interval keeps after trimming holds exactly one
\* field per point of the interval's own time grid, the borrowed points
\* removed and none of its own.
C12_TrimKeepsOwnGrid ==
    (op = "calc_temp_map" /\ ~raised /\ "state" \in DOMAIN cm /\ cm.state = "Diffusive") =>
        /\ Len(cm.temp) = Len(ComputedInterval.t)
        /\ \A j \in 1..Len(cm.temp) : cm.temp[j].t = ComputedInterval.t[j]

\* the values of a field are not all equal
GradientPresent(field) == \E a, b \in 1..Len(field) : field[a] # field[b]

\* the decision policy as stated: Diffusive, Delta or Hold
Policy(hd, iv, field) ==
    LET diffusive == /\ hd
                     /\ Len(iv.t) > 2
                     /\ \/ SumSeq(iv.fluence) = 0 /\ GradientPresent(field)
                        \/ SumSeq(iv.fluence) > 0 /\ SumSeq(iv.pulse_width) > 0
        delta == /\ ~diffusive
                 /\ SumSeq(iv.fluence) > 0
                 /\ (~hd \/ SumSeq(iv.pulse_width) = 0)
    IN  IF diffusive THEN "Diffusive" ELSE IF delta THEN "Delta" ELSE "Hold"

C13_Step ==
    (InLoop /\ cm' # cm /\ ~raised') => cm'.state = Policy(heat_diffusion, CurrentInterval, heap[cm.init_temp])

\* C13: every interval is computed in exactly the state the decision policy
\* names for it and the prior field; a quiet interval after a uniform prior
\* field is Hold.
C13_StateFollowsPolicy == [][C13_Step]_vars

\* C14: the deposited energy E0 of a call that returns is the fluence times
\* the area of the first layer of the stack.
C14_E0UsesFirstLayerArea ==
    DeltaReturned =>
        /\ Len(result.E0) = Len(arg.fluence)
        /\ \A j \in 1..Len(arg.fluence) : result.E0[j] = arg.fluence[j] * S.areas[1]

C15_Step ==
    (op' = "excitation" /\ raised' /\ arg'.kind = "dict" /\ arg'.nkeys = 3) =>
        /\ excitation' = excitation
        /\ SameLengths(excitation')
        /\ StrictlyIncreasing(excitation'.delay_pump)

\* C15: an assignment the setter rejects leaves the stored excitation as it
\* was before the call, with equal-length sequences and strictly increasing
\* delays.
C15_RejectedKeepsStored == [][C15_Step]_vars

====
